---------------------------- MODULE Spec2Model ----------------------------
(***************************************************************************)
(* A model of quick_gerard.py: the GerardAgent class, the CoreOrchestrator *)
(* (SQLite storage, agent registry, workflow loop, report) and main with   *)
(* the process exit code.                                                  *)
(*                                                                         *)
(* One process is one execution of the script.  The storage (the tables of *)
(* data/db/gerard.db and the files of data/reports) outlives the process;  *)
(* everything else is rebuilt by every execution.  datetime.now() is       *)
(* abstracted to the number of the execution that reads the clock.         *)
(*                                                                         *)
(* The library calls that can raise inside main's try block (the sqlite3   *)
(* calls of log_task, the file calls that save the report) either succeed  *)
(* or raise, chosen by the environment.                                    *)
(***************************************************************************)
EXTENDS Integers, Sequences, FiniteSets, TLC

(* Bounds of the model. *)
MaxRuns == 2
MaxUnknown == 2

(* main(), lines 259-260 *)
project_name == "FastAPI-ML-Service"
tech_stack == "FastAPI + SQLite + Docker"

(* initialize_agents, lines 111-116 *)
agent_configs ==
  << <<"CodeGen", "Code generation and templating">>,
     <<"Tester", "Automated testing and validation">>,
     <<"Deployer", "Deployment and infrastructure">>,
     <<"Monitor", "Monitoring and alerting">> >>

AgentNames == { agent_configs[k][1] : k \in 1..Len(agent_configs) }

(* orchestrate_project, lines 146-155: the f-strings with project_name and *)
(* tech_stack of main substituted.                                         *)
BuiltInWorkflow ==
  << <<"CodeGen", "Generate FastAPI + SQLite + Docker project structure for FastAPI-ML-Service">>,
     <<"CodeGen", "Create main application files for FastAPI-ML-Service">>,
     <<"Tester", "Generate unit tests for FastAPI-ML-Service">>,
     <<"Tester", "Run test suite validation">>,
     <<"Deployer", "Prepare deployment configuration">>,
     <<"Deployer", "Deploy FastAPI-ML-Service to production">>,
     <<"Monitor", "Setup monitoring for FastAPI-ML-Service">>,
     <<"Monitor", "Configure alerts and dashboards">> >>

(* A name that initialize_agents never registers: the case the guard of    *)
(* line 167 exists for.                                                    *)
UnknownName == "Ghost"

(* The workflows the loop of lines 164-173 is run on: the built-in list,   *)
(* and that list with at most MaxUnknown of its pairs naming UnknownName.  *)
WithUnknown(S) ==
  [k \in 1..Len(BuiltInWorkflow) |->
     IF k \in S THEN <<UnknownName, BuiltInWorkflow[k][2]>> ELSE BuiltInWorkflow[k]]

Workflows ==
  { WithUnknown(S) : S \in { T \in SUBSET (1..Len(BuiltInWorkflow)) : Cardinality(T) <= MaxUnknown } }

VARIABLES
  pc,            \* position of the process in the script
  run,           \* number of this execution of the script (also the clock)
  workflow,      \* the list of lines 146-155
  i,             \* number of workflow pairs the for loop has finished
  agents,        \* CoreOrchestrator.agents: name -> GerardAgent
  results,       \* CoreOrchestrator.results
  report,        \* the dict generate_report returned, <<>> before that
  error,         \* the exception raised in this execution, "none" if none
  caught,        \* number of times main's except clause ran
  success,       \* what main returned
  exit_code,     \* sys.exit's argument, -1 while the process runs
  tables,        \* storage: the tables that exist in gerard.db
  db_agents,     \* storage: rows of table agents, in rowid order
  db_tasks,      \* storage: rows of table tasks, in rowid order
  report_files   \* storage: the files of data/reports, in order of writing

vars == <<pc, run, workflow, i, agents, results, report, error, caught, success,
          exit_code, tables, db_agents, db_tasks, report_files>>

memory == <<i, agents, results, report, error, caught, success, exit_code>>
storage == <<tables, db_agents, db_tasks, report_files>>

-----------------------------------------------------------------------------
(* GerardAgent *)

(* Faulty variant: the counter starts at one. *)
GerardAgent_counts_from_one(name, role) ==
  [name |-> name, role |-> role, status |-> "initialized", tasks_completed |-> 1]

GerardAgent(name, role) ==
  [name |-> name, role |-> role, status |-> "initialized", tasks_completed |-> 0]

execute_start(agent) == [agent EXCEPT !.status = "running"]

execute_result(agent, task, now) ==
  [agent |-> agent.name, task |-> task, status |-> "completed", timestamp |-> now,
   result |-> <<agent.name, " completed: ", task>>]

(* Faulty variant: the counter is not incremented. *)
execute_finish_no_count(agent) == [agent EXCEPT !.status = "idle"]

execute_finish(agent) ==
  [agent EXCEPT !.tasks_completed = @ + 1, !.status = "idle"]


-----------------------------------------------------------------------------
(* Storage *)

(* SQLite's CREATE TABLE [IF NOT EXISTS]: creating a table that exists is  *)
(* an error unless IF NOT EXISTS is given, and then the table is kept,     *)
(* rows included.                                                          *)
sql_create_table(tabs, name, if_not_exists) ==
  IF name \in tabs /\ ~if_not_exists
  THEN [ok |-> FALSE, tabs |-> tabs]
  ELSE [ok |-> TRUE, tabs |-> tabs \cup {name}]

(* the two CREATE TABLE IF NOT EXISTS statements, in order *)
setup_database(tabs) ==
  LET first == sql_create_table(tabs, "agents", TRUE)
  IN IF first.ok THEN sql_create_table(first.tabs, "tasks", TRUE) ELSE first

MaxId(rows) ==
  IF rows = <<>> THEN 0
  ELSE CHOOSE m \in { rows[k].id : k \in 1..Len(rows) } :
         \A k \in 1..Len(rows) : rows[k].id <= m

NotNamed(name, rows) ==
  LET Other(r) == r.name # name IN SelectSeq(rows, Other)

(* SQLite's INSERT [OR REPLACE] into agents, whose name column is UNIQUE:  *)
(* a row of the same name makes a plain INSERT fail; OR REPLACE deletes it *)
(* and inserts the new row under the next rowid.                           *)
sql_insert_agent(rows, row, or_replace) ==
  IF NotNamed(row.name, rows) # rows /\ ~or_replace
  THEN [ok |-> FALSE, rows |-> rows]
  ELSE [ok |-> TRUE,
        rows |-> Append(NotNamed(row.name, rows), [id |-> MaxId(rows) + 1] @@ row)]

(* Faulty variant: a plain INSERT INTO agents. *)
register_agent_plain_insert(rows, agent) ==
  sql_insert_agent(rows,
                   [name |-> agent.name, role |-> agent.role, status |-> agent.status,
                    tasks_completed |-> agent.tasks_completed],
                   FALSE)

(* INSERT OR REPLACE INTO agents (name, role, status, tasks_completed) *)
register_agent(rows, agent) ==
  sql_insert_agent(rows,
                   [name |-> agent.name, role |-> agent.role, status |-> agent.status,
                    tasks_completed |-> agent.tasks_completed],
                   TRUE)

(* Faulty variant: the first two values of the INSERT are swapped. *)
log_task_swapped(rows, agent_name, task, status, result, now) ==
  Append(rows,
         [id |-> MaxId(rows) + 1, agent_name |-> task, task_description |-> agent_name,
          status |-> status, result |-> result, created_at |-> now, completed_at |-> now])

(* Faulty variant: INSERT OR REPLACE keyed on the agent name, as in        *)
(* register_agent.                                                         *)
log_task_replace(rows, agent_name, task, status, result, now) ==
  LET Other(r) == r.agent_name # agent_name
  IN Append(SelectSeq(rows, Other),
            [id |-> MaxId(rows) + 1, agent_name |-> agent_name, task_description |-> task,
             status |-> status, result |-> result, created_at |-> now,
             completed_at |-> now])

(* INSERT INTO tasks (agent_name, task_description, status, result,        *)
(* completed_at), committed by itself; created_at defaults to the clock.   *)
log_task(rows, agent_name, task, status, result, now) ==
  Append(rows,
         [id |-> MaxId(rows) + 1, agent_name |-> agent_name, task_description |-> task,
          status |-> status, result |-> result, created_at |-> now, completed_at |-> now])

(* Faulty variant: one transaction spans the writes of an execution, so a  *)
(* raising write rolls all of them back.                                   *)
log_task_raises_rollback(rows, now) ==
  LET Earlier(r) == r.completed_at # now IN SelectSeq(rows, Earlier)

(* log_task when one of its sqlite3 calls raises: this write is not        *)
(* committed; every earlier write was committed by its own connection.     *)
log_task_raises(rows, now) == rows

-----------------------------------------------------------------------------
(* CoreOrchestrator *)

RECURSIVE RegisterAll(_, _, _)
(* the loop of initialize_agents from its k-th configuration on: the       *)
(* agents dict, the agents table, and whether no register_agent raised     *)
(* (the loop ends at the first that does).                                 *)
RegisterAll(k, ags, rows) ==
  IF k > Len(agent_configs) THEN [ok |-> TRUE, agents |-> ags, rows |-> rows]
  ELSE LET agent == GerardAgent(agent_configs[k][1], agent_configs[k][2])
           dict == [n \in DOMAIN ags \cup {agent.name} |->
                      IF n = agent.name THEN agent ELSE ags[n]]
           reg == register_agent(rows, agent)
       IN IF reg.ok THEN RegisterAll(k + 1, dict, reg.rows)
          ELSE [ok |-> FALSE, agents |-> dict, rows |-> reg.rows]

initialize_agents(ags, rows) == RegisterAll(1, ags, rows)

(* Faulty variant: the list is walked from its end. *)
workflow_pair_reversed(wf, k) == wf[Len(wf) - k]

(* for agent_name, task in workflow: the pair after i finished ones *)
workflow_pair(wf, k) == wf[k + 1]

(* Faulty variant: no membership test. *)
agent_known_always(agent_name, ags) == TRUE

(* if agent_name in self.agents *)
agent_known(agent_name, ags) == agent_name \in DOMAIN ags

RECURSIVE TotalTasks(_, _)
TotalTasks(ags, names) ==
  IF names = {} THEN 0
  ELSE LET n == CHOOSE x \in names : TRUE
       IN ags[n].tasks_completed + TotalTasks(ags, names \ {n})

(* (total_tasks / (len(self.agents) * 2)) * 100, in tenths of a percent.   *)
(* The quotient is a multiple of 1/8 for the four agents of agent_configs, *)
(* so the float is exact and so is the division here.                      *)
success_rate(total_tasks, n_agents) == (total_tasks * 1000) \div (n_agents * 2)

(* f"{success_rate:.1f}%" *)
format_rate(tenths) == <<tenths \div 10, ".", tenths % 10, "%">>

(* Faulty variant: >= 75. *)
deployment_ready_at_least(rate) == rate >= 750

deployment_ready(rate) == rate > 750

generate_report(ags, now) ==
  LET total_tasks == TotalTasks(ags, DOMAIN ags)
      rate == success_rate(total_tasks, Cardinality(DOMAIN ags))
  IN [project |-> project_name,
      agents_active |-> Cardinality(DOMAIN ags),
      total_tasks |-> total_tasks,
      success_rate |-> format_rate(rate),
      deployment_ready |-> deployment_ready(rate),
      timestamp |-> now]

(* Faulty variant: the except clause returns True too. *)
main_returns_true(raised) == TRUE

(* main: what it returns; __main__: the exit code *)
main_returns(raised) == ~raised
exit_status(ok) == IF ok THEN 0 ELSE 1

-----------------------------------------------------------------------------
Init ==
  /\ pc = "start"
  /\ run = 1
  /\ workflow \in Workflows
  /\ i = 0
  /\ agents = <<>>
  /\ results = <<>>
  /\ report = <<>>
  /\ error = "none"
  /\ caught = 0
  /\ success = FALSE
  /\ exit_code = -1
  /\ tables = {}
  /\ db_agents = <<>>
  /\ db_tasks = <<>>
  /\ report_files = <<>>

(* CoreOrchestrator.__init__, first half.  main constructs the             *)
(* orchestrator before its try block (line 256): an exception here leaves  *)
(* main and asyncio.run uncaught, and the interpreter exits with status 1. *)
SetupDatabase ==
  /\ pc = "start"
  /\ LET done == setup_database(tables)
     IN /\ tables' = done.tabs
        /\ IF done.ok
           THEN /\ pc' = "init_agents"
                /\ UNCHANGED <<error, exit_code>>
           ELSE /\ pc' = "exited"
                /\ error' = "sqlite3.OperationalError"
                /\ exit_code' = 1
  /\ UNCHANGED <<run, workflow, i, agents, results, report, caught, success,
                 db_agents, db_tasks, report_files>>

(* CoreOrchestrator.__init__, second half; main then enters its try block  *)
(* and the for loop of orchestrate_project.                                *)
InitializeAgents ==
  /\ pc = "init_agents"
  /\ LET done == initialize_agents(agents, db_agents)
     IN /\ agents' = done.agents
        /\ db_agents' = done.rows
        /\ IF done.ok
           THEN /\ pc' = "loop"
                /\ UNCHANGED <<error, exit_code>>
           ELSE /\ pc' = "exited"
                /\ error' = "sqlite3.IntegrityError"
                /\ exit_code' = 1
  /\ UNCHANGED <<run, workflow, i, results, report, caught, success,
                 tables, db_tasks, report_files>>

(* One pass of the for loop up to the await of execute (lines 164-168,    *)
(* 50-51).  self.agents[agent_name] raises KeyError for a missing key.     *)
StepStart ==
  /\ pc = "loop"
  /\ i < Len(workflow)
  /\ LET agent_name == workflow_pair(workflow, i)[1]
     IN /\ agent_known(agent_name, agents)
        /\ IF agent_name \in DOMAIN agents
           THEN /\ agents' = [agents EXCEPT ![agent_name] = execute_start(@)]
                /\ pc' = "executing"
                /\ error' = error
           ELSE /\ agents' = agents
                /\ pc' = "raised"
                /\ error' = "KeyError"
  /\ UNCHANGED <<run, workflow, i, results, report, caught, success, exit_code, storage>>

(* One pass of the for loop for a name that is no key of self.agents: the  *)
(* if of line 167 has no else, the loop goes on to the next pair.          *)
StepSkip ==
  /\ pc = "loop"
  /\ i < Len(workflow)
  /\ ~agent_known(workflow_pair(workflow, i)[1], agents)
  /\ i' = i + 1
  /\ UNCHANGED <<pc, run, workflow, agents, results, report, error, caught, success,
                 exit_code, storage>>

(* The rest of the pass, after the sleep of execute (lines 53-63, 169-173) *)
StepFinish ==
  /\ pc = "executing"
  /\ LET pair == workflow_pair(workflow, i)
         agent_name == pair[1]
         task == pair[2]
         result == execute_result(agents[agent_name], task, run)
     IN /\ agents' = [agents EXCEPT ![agent_name] = execute_finish(@)]
        /\ results' = Append(results, result)
        /\ \E db_ok \in BOOLEAN :
             IF db_ok
             THEN /\ db_tasks' = log_task(db_tasks, agent_name, task, "completed",
                                          result.result, run)
                  /\ i' = i + 1
                  /\ pc' = "loop"
                  /\ error' = error
             ELSE /\ db_tasks' = log_task_raises(db_tasks, run)
                  /\ i' = i
                  /\ pc' = "raised"
                  /\ error' = "sqlite3.Error"
  /\ UNCHANGED <<run, workflow, report, caught, success, exit_code, tables, db_agents,
                 report_files>>

(* return self.generate_report(project_name) *)
GenerateReport ==
  /\ pc = "loop"
  /\ i = Len(workflow)
  /\ report' = <<generate_report(agents, run)>>
  /\ pc' = "save"
  /\ UNCHANGED <<run, workflow, i, agents, results, error, caught, success, exit_code,
                 storage>>

(* main, lines 266-279 *)
SaveReport ==
  /\ pc = "save"
  /\ \E file_ok \in BOOLEAN :
       IF file_ok
       THEN /\ report_files' = Append(report_files, report[1])
            /\ success' = main_returns(FALSE)
            /\ pc' = "returned"
            /\ error' = error
       ELSE /\ report_files' = report_files
            /\ success' = success
            /\ pc' = "raised"
            /\ error' = "OSError"
  /\ UNCHANGED <<run, workflow, i, agents, results, report, caught, exit_code,
                 tables, db_agents, db_tasks>>

(* main, lines 281-287 *)
MainExcept ==
  /\ pc = "raised"
  /\ caught' = caught + 1
  /\ success' = main_returns(TRUE)
  /\ pc' = "returned"
  /\ UNCHANGED <<run, workflow, i, agents, results, report, error, exit_code, storage>>

(* __main__, lines 298-306 *)
Exit ==
  /\ pc = "returned"
  /\ exit_code' = exit_status(success)
  /\ pc' = "exited"
  /\ UNCHANGED <<run, workflow, i, agents, results, report, error, caught, success,
                 storage>>

(* The script is started again: a new process on the storage left behind. *)
Rerun ==
  /\ pc = "exited"
  /\ run < MaxRuns
  /\ run' = run + 1
  /\ pc' = "start"
  /\ i' = 0
  /\ agents' = <<>>
  /\ results' = <<>>
  /\ report' = <<>>
  /\ error' = "none"
  /\ caught' = 0
  /\ success' = FALSE
  /\ exit_code' = -1
  /\ UNCHANGED <<workflow, storage>>

Next ==
  \/ SetupDatabase
  \/ InitializeAgents
  \/ StepStart
  \/ StepSkip
  \/ StepFinish
  \/ GenerateReport
  \/ SaveReport
  \/ MainExcept
  \/ Exit
  \/ Rerun

Spec == Init /\ [][Next]_vars

-----------------------------------------------------------------------------
(* Vocabulary of the properties *)

(* the task records appended by this execution *)
RunTasks ==
  LET Mine(r) == r.completed_at = run IN SelectSeq(db_tasks, Mine)

(* the <<agent name, task>> pairs of a sequence of task records *)
PairsOf(rows) == [k \in 1..Len(rows) |-> <<rows[k].agent_name, rows[k].task_description>>]

(* the pairs of wf that name an agent of agent_configs, in order *)
KnownPairs(wf) ==
  LET Known(p) == p[1] \in AgentNames IN SelectSeq(wf, Known)

(* the number of pairs of wf that name the agent *)
CountPairs(wf, name) == Cardinality({ k \in 1..Len(wf) : wf[k][1] = name })

(* the sum of the four counters, written out *)
CountersSum ==
  agents["CodeGen"].tasks_completed + agents["Tester"].tasks_completed
  + agents["Deployer"].tasks_completed + agents["Monitor"].tasks_completed

(* orchestrate_project has returned its report *)
OrchestrateReturned == report # <<>>

(* a report file was written by this execution *)
ReportWritten == \E k \in 1..Len(report_files) : report_files[k].timestamp = run

(* the loop stands at a pair whose name is no key of the agents mapping *)
AtUnknownPair ==
  /\ pc = "loop"
  /\ i < Len(workflow)
  /\ workflow[i + 1][1] \notin DOMAIN agents

-----------------------------------------------------------------------------
(* C1: after a successful orchestrate_project on a freshly constructed     *)
(* orchestrator, every agent's tasks_completed equals the number of        *)
(* workflow pairs that name it; 2 for each of the four agents under the    *)
(* built-in workflow.                                                      *)
C1_CountersMatchWorkflow ==
  OrchestrateReturned =>
    /\ \A n \in DOMAIN agents : agents[n].tasks_completed = CountPairs(workflow, n)
    /\ workflow = BuiltInWorkflow =>
         /\ DOMAIN agents = {"CodeGen", "Tester", "Deployer", "Monitor"}
         /\ \A n \in DOMAIN agents : agents[n].tasks_completed = 2

C1_Witness ==
  /\ OrchestrateReturned
  /\ workflow = BuiltInWorkflow
  /\ run = 2
  /\ agents["Monitor"].tasks_completed = 2

(* C2: in the report, success rate = total / (agents x 2) x 100 with total *)
(* the sum of the counters, deployment_ready iff the rate is strictly      *)
(* above 75; the built-in workflow gives 8, 100.0% and true.               *)
C2_ReportFigures ==
  OrchestrateReturned =>
    LET r == report[1]
        n == Cardinality(DOMAIN agents)
    IN /\ r.agents_active = n
       /\ r.total_tasks = CountersSum
       /\ \E whole \in 0..100, tenth \in 0..9 :
            /\ r.success_rate = <<whole, ".", tenth, "%">>
            /\ (10 * whole + tenth) * (n * 2) = CountersSum * 1000
       /\ r.deployment_ready <=> (CountersSum * 100 > 75 * (n * 2))
       /\ workflow = BuiltInWorkflow =>
            /\ r.total_tasks = 8
            /\ r.success_rate = <<100, ".", 0, "%">>
            /\ r.deployment_ready = TRUE

(* the rate is exactly 75.0%: not ready *)
C2_Witness ==
  /\ OrchestrateReturned
  /\ report[1].total_tasks = 6
  /\ report[1].success_rate = <<75, ".", 0, "%">>
  /\ report[1].deployment_ready = FALSE

(* C3: every task record names an agent of the agent set, and a record     *)
(* written by this execution names a key of its agents mapping.            *)
C3_RecordsNameKnownAgents ==
  \A k \in 1..Len(db_tasks) :
    /\ db_tasks[k].agent_name \in AgentNames
    /\ db_tasks[k].completed_at = run => db_tasks[k].agent_name \in DOMAIN agents

(* records written on both sides of a skipped pair *)
C3_Witness ==
  /\ workflow[3][1] = UnknownName
  /\ i >= 4
  /\ Len(RunTasks) = i - 1
  /\ Len(db_tasks) > Len(RunTasks)

(* C4: when the execution fails after i finished pairs, the task log holds *)
(* exactly the records of those pairs, all completed, and no report file   *)
(* was written by it; 5 records when 5 of the 8 built-in steps ran.        *)
C4_FailureKeepsFinishedRecords ==
  (error # "none") =>
    /\ Len(RunTasks) = Len(KnownPairs(SubSeq(workflow, 1, i)))
    /\ \A k \in 1..Len(RunTasks) : RunTasks[k].status = "completed"
    /\ ~ReportWritten
    /\ (workflow = BuiltInWorkflow /\ i = 5) => Len(RunTasks) = 5

C4_Witness ==
  /\ workflow = BuiltInWorkflow
  /\ pc = "exited"
  /\ error = "sqlite3.Error"
  /\ i = 5
  /\ Len(RunTasks) = 5
  /\ Len(db_tasks) > 5

(* C5 as stated: a pair naming an unknown agent makes the run fail with    *)
(* UnknownAgentError at that pair.                                         *)
C5_UnknownAgentRaises ==
  \A k \in 1..i :
    workflow[k][1] \notin DOMAIN agents =>
      /\ pc \in {"raised", "returned", "exited"}
      /\ error = "UnknownAgentError"

(* C5 amended: a pair naming an unknown agent is skipped silently: nothing *)
(* is raised, no agent runs, no result and no record is added, and the     *)
(* loop goes on to the next pair.                                          *)
C5_UnknownAgentSkipped ==
  [][AtUnknownPair =>
       /\ pc' = "loop"
       /\ i' = i + 1
       /\ error' = "none"
       /\ agents' = agents
       /\ results' = results
       /\ db_tasks' = db_tasks]_vars

(* a run with a skipped pair that ended with exit code 0 *)
C5_Witness ==
  /\ pc = "exited"
  /\ exit_code = 0
  /\ workflow[5][1] = UnknownName
  /\ Len(results) = 7

(* C6: exit code 0 exactly when every pair was processed and the report    *)
(* saved; exit code 1 exactly when an exception was raised, and then       *)
(* main's except clause ran once.                                          *)
C6_ExitCode ==
  pc = "exited" =>
    /\ exit_code \in {0, 1}
    /\ exit_code = 0 <=> (error = "none" /\ i = Len(workflow) /\ ReportWritten)
    /\ exit_code = 1 <=> error # "none"
    /\ caught = (IF error = "none" THEN 0 ELSE 1)
    /\ (workflow = BuiltInWorkflow /\ exit_code = 0) => Len(results) = 8

C6_Witness ==
  /\ pc = "exited"
  /\ exit_code = 1
  /\ caught = 1
  /\ error = "sqlite3.Error"
  /\ i = 2

(* C7: on storage left by earlier executions, setup_database and           *)
(* register_agent do not fail, and the agents table holds exactly one row  *)
(* per agent name afterwards.                                              *)
C7_RerunOnExistingStorage ==
  /\ error \notin {"sqlite3.OperationalError", "sqlite3.IntegrityError"}
  /\ pc \notin {"start"} => {"agents", "tasks"} \subseteq tables
  /\ pc \notin {"start", "init_agents"} =>
       /\ Len(db_agents) = Len(agent_configs)
       /\ \A n \in AgentNames :
            Cardinality({ k \in 1..Len(db_agents) : db_agents[k].name = n }) = 1

C7_Witness ==
  /\ run = 2
  /\ pc = "loop"
  /\ Len(db_tasks) = 8
  /\ Len(db_agents) = 4
  /\ db_agents[1].id = 5

(* C8: the pairs are processed in list order, each at most once, and a     *)
(* step starts only when the records of all earlier pairs are in the log:  *)
(* the records of this execution are those of the first i pairs, in order. *)
C8_StrictOrder ==
  /\ i \in 0..Len(workflow)
  /\ PairsOf(RunTasks) = KnownPairs(SubSeq(workflow, 1, i))
  /\ workflow = BuiltInWorkflow => PairsOf(RunTasks) = SubSeq(workflow, 1, i)
  /\ \A a, b \in 1..Len(RunTasks) : a < b => RunTasks[a].id < RunTasks[b].id
  /\ Len(results) \in {Len(RunTasks), Len(RunTasks) + 1}

(* the fourth step has started, the records of the first three are there *)
C8_Witness ==
  /\ workflow = BuiltInWorkflow
  /\ pc = "executing"
  /\ i = 3
  /\ Len(RunTasks) = 3
  /\ run = 2

(* C9 as stated: a record with status pending exists from the start of its *)
(* step.                                                                   *)
C9_PendingWhileExecuting ==
  pc = "executing" =>
    \E k \in 1..Len(RunTasks) :
      /\ PairsOf(RunTasks)[k] = workflow[i + 1]
      /\ RunTasks[k].status = "pending"

(* C9 amended: a record is written only once the agent has finished, with  *)
(* status completed; no operation modifies or deletes a record.            *)
C9_AppendOnlyCompleted ==
  [][/\ Len(db_tasks') >= Len(db_tasks)
     /\ \A k \in 1..Len(db_tasks) : db_tasks'[k] = db_tasks[k]
     /\ \A k \in 1..Len(db_tasks') : db_tasks'[k].status = "completed"
     /\ Len(db_tasks') > Len(db_tasks) =>
          /\ pc = "executing"
          /\ Len(db_tasks') = Len(db_tasks) + 1
          /\ agents'[db_tasks'[Len(db_tasks')].agent_name].status = "idle"]_vars

(* the records of the first execution are there while the second runs *)
C9_Witness ==
  /\ run = 2
  /\ pc = "executing"
  /\ Len(RunTasks) = 2
  /\ Len(db_tasks) = 10
  /\ db_tasks[1].completed_at = 1

(* C10: at every boundary between steps, the number of results, the number *)
(* of records this execution appended and the sum of the counters agree.   *)
C10_BoundaryCountsAgree ==
  pc \in {"loop", "save"} =>
    /\ Len(results) = Len(RunTasks)
    /\ Len(RunTasks) = CountersSum

C10_Witness ==
  /\ pc = "loop"
  /\ run = 2
  /\ i = 4
  /\ Len(results) = 3
  /\ Len(db_tasks) > 3

=============================================================================
